---- MODULE Spec2Model ----
(***************************************************************************)
(* A model of laiin::Backend (src/gui/backend.cpp): the catalog resolvers  *)
(* (index query -> RemoteStore get -> metadata check -> projection ->      *)
(* self-healing remove), the content-policy filter, the sort orders and    *)
(* the image chunking of uploadImageToObject.                              *)
(*                                                                         *)
(* Backend methods are called from the GUI thread one at a time: a call    *)
(* runs as one atomic action (pc "idle" -> "returned") that leaves its     *)
(* result and the RemoteStore calls it made in `last`; Return hands the    *)
(* result to the caller (pc -> "idle").  The RemoteStore is external: the  *)
(* response to each get, and whether a remove succeeds, are inputs of the  *)
(* call.                                                                   *)
(***************************************************************************)
EXTENDS Integers, Sequences, FiniteSets, TLC

VARIABLES index, pc, last, session

vars == <<index, pc, last, session>>

(***************************************************************************)
(* session is what an account operation can change outside the index: the *)
(* user controller's current user and how often it was assigned, the RSA   *)
(* key files on disk, the puts sent to the RemoteStore, the rows of table  *)
(* cart, the signals emitted and whether the wallet is open.  The          *)
(* resolvers leave it alone.                                               *)
(***************************************************************************)
NoUser == [id |-> <<>>, by |-> "nobody"]

NoSession ==
    [user |-> NoUser, installs |-> 0, key_files |-> {}, puts |-> <<>>,
     cart |-> <<>>, signals |-> <<>>, wallet |-> "closed"]

(***************************************************************************)
(* Bounds of the model.                                                    *)
(***************************************************************************)
NumKeys == 2
MaxRows == 2

(***************************************************************************)
(* The local index: rows (search_term, content, key) of table `mappings`.  *)
(* Search terms are sequences of characters so that the prefix match of    *)
(* getListingsBySearchTerm is computed.  NullKey is a row whose key column *)
(* is NULL.                                                                *)
(***************************************************************************)
NullKey == 0
Keys == 1..NumKeys
Terms == {<<"a">>, <<"a", "b">>}
Contents == {"listing", "user", "product_rating", "seller_rating"}
Rows == [term : Terms, content : Contents, key : Keys \cup {NullKey}]

RECURSIVE Dedup(_)
Dedup(s) ==
    IF s = <<>> THEN <<>>
    ELSE LET r == Dedup(SubSeq(s, 1, Len(s) - 1))
             x == s[Len(s)]
         IN  IF \E i \in 1..Len(r) : r[i] = x THEN r ELSE Append(r, x)

ToSet(s) == {s[i] : i \in 1..Len(s)}
Take(s, n) == SubSeq(s, 1, IF Len(s) < n THEN Len(s) ELSE n)
IsPrefix(p, s) == Len(p) <= Len(s) /\ SubSeq(s, 1, Len(p)) = p


(***************************************************************************)
(* RemoteStore responses to get(key).  kind:                               *)
(*   "malformed"  the response text is not JSON (also an empty response of *)
(*                a failed transport): nlohmann::json::parse throws        *)
(*   "error"      the response has an "error" member (key not found)       *)
(*   "badresponse" the response is JSON but an array, a number, a string   *)
(*                or a boolean: it has no members, and reading its         *)
(*                "response" member throws (type_error)                    *)
(*   "noresponse" a JSON object (or null) without an "error" member whose  *)
(*                "response" member is missing or is not an object         *)
(*   "novalue"    a response object without a string "value"               *)
(*   "badvalue"   "value" is a string that is not JSON: parse throws       *)
(*   "notobject"  "value" is JSON but not an object (a number, an array,   *)
(*                null)                                                    *)
(*   "doc"        "value" holds a document: `metadata` is its tag, `shape` *)
(*                names the projection whose required fields it carries    *)
(*                ("none": it lacks required fields of every projection;   *)
(*                "productless": it carries the fields of a listing itself *)
(*                and no product object)                                   *)
(* The resolvers assert that the response member and the value are         *)
(* objects, and the listing resolvers that the product is: a failed        *)
(* assertion ends the process.                                             *)
(***************************************************************************)
IllicitCategory == "Illicit"

NoDate == <<>>
Date1Z == <<"2024-01-01T00:00:00", "Z">>
Date1Utc == <<"2024-01-01T00:00:00", "+00:00">>
Date1Plus1 == <<"2024-01-01T01:00:00", "+01:00">>
Date2Z == <<"2024-01-02T00:00:00", "Z">>

Resp(kind) ==
    [kind |-> kind, metadata |-> "", shape |-> "none", price |-> 0, quantity |-> 0,
     date |-> NoDate, name |-> <<>>, category |-> "", subcategories |-> <<>>,
     stars |-> 0, score |-> 0]

ListingDoc(metadata, price, date, name, category, subcategories) ==
    [Resp("doc") EXCEPT !.metadata = metadata, !.shape = "listing",
                        !.quantity = 1, !.price = price, !.date = date, !.name = name,
                        !.category = category, !.subcategories = subcategories]

RatingDoc(metadata, stars, score) ==
    [Resp("doc") EXCEPT !.metadata = metadata, !.shape = metadata,
                        !.stars = stars, !.score = score]

UserDoc == [Resp("doc") EXCEPT !.metadata = "user", !.shape = "user"]

ProductlessListing ==
    [Resp("doc") EXCEPT !.metadata = "listing", !.shape = "productless",
                        !.quantity = 1, !.price = 1, !.date = Date1Z]

IncompleteDoc(metadata) == [Resp("doc") EXCEPT !.metadata = metadata]

(***************************************************************************)
(* The operations and what each expects of a document.                     *)
(***************************************************************************)
ListingOps == {"getListings", "getListingsByCategory", "getListingsBySearchTerm",
               "getInventory"}
RatingOps == {"getProductRatings", "getSellerRatings"}
CatalogOps == ListingOps \cup RatingOps
ResolverOps == CatalogOps \cup {"getUser"}

ExpectedContent(op) ==
    CASE op \in ListingOps -> "listing"
      [] op = "getProductRatings" -> "product_rating"
      [] op = "getSellerRatings" -> "seller_rating"
      [] op = "getUser" -> "user"
      [] op = "getStockAvailable" -> "listing"

\* Every resolver compares the document's metadata with the expected content
\* type, except getListingsBySearchTerm, which reads the tag and never tests it.
ChecksMetadata(op) == op # "getListingsBySearchTerm"

MetadataRejected(op, r) == ChecksMetadata(op) /\ r.metadata # ExpectedContent(op)

(***************************************************************************)
(* Views: QVariantMap objects.  A member the map lacks reads as QVariant's *)
(* default (0, "", empty list), which is how the record stores it; key     *)
(* NullKey and product_categories <<>> mean the member is absent.          *)
(***************************************************************************)
EmptyView ==
    [key |-> NullKey, price |-> 0, date |-> NoDate, product_name |-> <<>>,
     product_categories |-> <<>>, stars |-> 0, score |-> 0]

Project(op, key, r) ==
    CASE op \in ListingOps ->
           [EmptyView EXCEPT !.key = key, !.price = r.price, !.date = r.date,
                             !.product_name = r.name,
                             !.product_categories = <<r.category>> \o r.subcategories]
      [] op = "getProductRatings" -> [EmptyView EXCEPT !.key = key, !.stars = r.stars]
      [] op = "getSellerRatings" -> [EmptyView EXCEPT !.key = key, !.score = r.score]
      [] op = "getUser" -> [EmptyView EXCEPT !.key = key]

MutIsIllicitPrimaryOnly(view) ==
    /\ view.product_categories # <<>>
    /\ view.product_categories[1] = IllicitCategory
IsIllicitItem(view) ==
    /\ view.product_categories # <<>>
    /\ \E i \in 1..Len(view.product_categories) :
          view.product_categories[i] = IllicitCategory

Hidden(op, hide, view) == op \in ListingOps /\ hide /\ IsIllicitItem(view)

(***************************************************************************)
(* One iteration of a resolver's loop over the enumerated keys.  acc is    *)
(* the call so far: the catalog built, the rows sqlite3_step has yielded   *)
(* (stepped), the get and remove calls issued (each on its own and, in     *)
(* log, in the order they were made), the keys whose remove the store      *)
(* carried out (pruned), and status "running", "threw" (an exception left  *)
(* the method) or "crashed" (a failed assert ended the process).  removed  *)
(* tells whether the store carries out the remove of the key at hand; the  *)
(* loop prints the remove's response and does nothing else with it.        *)
(***************************************************************************)
StartAcc ==
    [catalog |-> <<>>, stepped |-> <<>>, gets |-> <<>>, removes |-> <<>>,
     log |-> <<>>, pruned |-> {}, status |-> "running"]

Throw(acc) == [acc EXCEPT !.status = "threw"]

Abort(acc) == [acc EXCEPT !.status = "crashed"]

OnGet(acc, key) ==
    [acc EXCEPT !.gets = Append(@, key), !.log = Append(@, <<"get", key>>)]

MutOnErrorEscalates(acc, key, removed) ==
    IF removed
    THEN [acc EXCEPT !.removes = Append(@, key), !.log = Append(@, <<"remove", key>>),
                     !.pruned = @ \cup {key}]
    ELSE Throw([acc EXCEPT !.removes = Append(@, key),
                           !.log = Append(@, <<"remove", key>>)])
OnError(acc, key, removed) ==
    [acc EXCEPT !.removes = Append(@, key), !.log = Append(@, <<"remove", key>>),
                !.pruned = IF removed THEN @ \cup {key} ELSE @]

OnNoValue(acc) == [acc EXCEPT !.catalog = Append(@, EmptyView)]

OnDocument(op, hide, key, r, acc) ==
    IF MetadataRejected(op, r) THEN acc
    ELSE IF op \in ListingOps /\ r.shape = "productless" THEN Abort(acc)
    ELSE IF r.shape # ExpectedContent(op) THEN Throw(acc)
    ELSE LET view == Project(op, key, r)
         IN  IF Hidden(op, hide, view) THEN acc
             ELSE [acc EXCEPT !.catalog = Append(@, view)]

MutResolveKeyForgetsError(op, hide, key, r, removed, acc) ==
    LET stepped == [acc EXCEPT !.stepped = Append(@, key)]
    IN  IF key = NullKey THEN stepped
        ELSE LET fetched == OnGet(stepped, key)
             IN  CASE r.kind = "malformed" -> Throw(fetched)
                   [] r.kind = "error" -> fetched
                   [] r.kind = "badresponse" -> Throw(fetched)
                   [] r.kind = "noresponse" -> Abort(fetched)
                   [] r.kind = "novalue" -> OnNoValue(fetched)
                   [] r.kind = "badvalue" -> Throw(fetched)
                   [] r.kind = "notobject" -> Abort(fetched)
                   [] r.kind = "doc" -> OnDocument(op, hide, key, r, fetched)
ResolveKey(op, hide, key, r, removed, acc) ==
    LET stepped == [acc EXCEPT !.stepped = Append(@, key)]
    IN  IF key = NullKey THEN stepped
        ELSE LET fetched == OnGet(stepped, key)
             IN  CASE r.kind = "malformed" -> Throw(fetched)
                   [] r.kind = "error" -> OnError(fetched, key, removed)
                   [] r.kind = "badresponse" -> Throw(fetched)
                   [] r.kind = "noresponse" -> Abort(fetched)
                   [] r.kind = "novalue" -> OnNoValue(fetched)
                   [] r.kind = "badvalue" -> Throw(fetched)
                   [] r.kind = "notobject" -> Abort(fetched)
                   [] r.kind = "doc" -> OnDocument(op, hide, key, r, fetched)

RECURSIVE ResolveKeys(_, _, _, _, _, _)
ResolveKeys(op, hide, keys, resp, succeeds, acc) ==
    IF keys = <<>> \/ acc.status \in {"threw", "crashed"} THEN acc
    ELSE LET key == Head(keys)
             r == IF key = NullKey THEN Resp("novalue") ELSE resp[key]
         IN  ResolveKeys(op, hide, Tail(keys), resp, succeeds,
                         ResolveKey(op, hide, key, r, key \in succeeds, acc))

(***************************************************************************)
(* The index queries.  Each selects DISTINCT key over the rows its WHERE   *)
(* clause matches, in the order of the rows in the table;                  *)
(* getListingsBySearchTerm matches the term or any term it is a prefix of  *)
(* and applies LIMIT: SQLite runs the two MATCH terms of its OR one after  *)
(* the other, so the rows that match the term itself come first and the    *)
(* rows only the prefix pattern matches after them.  getUser takes the     *)
(* first matching row.                                                     *)
(***************************************************************************)
MaxSearchResults == 1000

RowMatches(op, term, row) ==
    /\ row.content = ExpectedContent(op)
    /\ CASE op = "getListings" -> TRUE
         [] op = "getListingsBySearchTerm" -> row.term = term \/ IsPrefix(term, row.term)
         [] OTHER -> row.term = term

MatchingKeys(op, term, idx) ==
    LET rows == SelectSeq(idx, LAMBDA row : RowMatches(op, term, row))
        yielded == IF op = "getListingsBySearchTerm"
                   THEN SelectSeq(rows, LAMBDA row : row.term = term)
                           \o SelectSeq(rows, LAMBDA row : row.term # term)
                   ELSE rows
    IN  [i \in 1..Len(yielded) |-> yielded[i].key]

MutEnumerateKeysNoDistinct(op, term, idx) ==
    CASE op = "getListingsBySearchTerm" ->
           Take(MatchingKeys(op, term, idx), MaxSearchResults)
      [] op \in {"getUser", "getStockAvailable"} -> Take(MatchingKeys(op, term, idx), 1)
      [] OTHER -> MatchingKeys(op, term, idx)
EnumerateKeys(op, term, idx) ==
    CASE op = "getListingsBySearchTerm" ->
           Take(Dedup(MatchingKeys(op, term, idx)), MaxSearchResults)
      [] op \in {"getUser", "getStockAvailable"} -> Take(MatchingKeys(op, term, idx), 1)
      [] OTHER -> Dedup(MatchingKeys(op, term, idx))

(***************************************************************************)
(* Sort keys.  A date is the text before the zone designator and the       *)
(* designator; the comparators rewrite a trailing "Z" to "+00:00" and      *)
(* parse the result (Qt::ISODateWithMs) to an instant, here in hours.  An  *)
(* unparsable (absent) date gives an invalid QDateTime, which compares     *)
(* below every valid one.  Product names are sequences of characters,      *)
(* compared case-insensitively.  Prices are in whole units.                *)
(***************************************************************************)
EndsWithZ(date) == date # <<>> /\ date[Len(date)] = "Z"

ReplaceTrailingZ(date) == [date EXCEPT ![Len(date)] = "+00:00"]

NormalizeDate(date) == IF EndsWithZ(date) THEN ReplaceTrailingZ(date) ELSE date

LocalHours(text) ==
    CASE text = "2024-01-01T00:00:00" -> 24
      [] text = "2024-01-01T01:00:00" -> 25
      [] text = "2024-01-02T00:00:00" -> 48

OffsetHours(zone) ==
    CASE zone = "+00:00" -> 0
      [] zone = "Z" -> 0
      [] zone = "+01:00" -> 1

\* QDateTime::fromString: 0 stands for the invalid QDateTime.
FromISODate(date) ==
    IF date = <<>> THEN 0 ELSE LocalHours(date[1]) - OffsetHours(date[2])

DateTimeOf(view) == FromISODate(NormalizeDate(view.date))

FoldCase(c) ==
    CASE c = "A" -> "a"
      [] c = "B" -> "b"
      [] OTHER -> c

CharRank(c) ==
    CASE c = "A" -> 65
      [] c = "B" -> 66
      [] c = "a" -> 97
      [] c = "b" -> 98

RECURSIVE CompareCaseInsensitive(_, _)
CompareCaseInsensitive(s, t) ==
    IF s = <<>> THEN (IF t = <<>> THEN 0 ELSE -1)
    ELSE IF t = <<>> THEN 1
    ELSE LET a == CharRank(FoldCase(Head(s)))
             b == CharRank(FoldCase(Head(t)))
         IN  IF a < b THEN -1
             ELSE IF a > b THEN 1
             ELSE CompareCaseInsensitive(Tail(s), Tail(t))

ImplementedSortings == {"SortByMostRecent", "SortByOldest", "SortByAlphabeticalOrder",
                        "SortByPriceLowest", "SortByPriceHighest"}
Sortings == ImplementedSortings \cup
            {"SortNone", "SortByCategory", "SortByAverageRating",
             "SortByMostFavorited", "SortByMostSales", "Unknown"}

\* The comparator each case of the switch hands to std::sort.
MutLessPriceHighestAscending(sorting, a, b) ==
    CASE sorting = "SortByMostRecent" -> DateTimeOf(a) > DateTimeOf(b)
      [] sorting = "SortByOldest" -> DateTimeOf(a) < DateTimeOf(b)
      [] sorting = "SortByAlphabeticalOrder" ->
           CompareCaseInsensitive(a.product_name, b.product_name) < 0
      [] sorting = "SortByPriceLowest" -> a.price < b.price
      [] sorting = "SortByPriceHighest" -> a.price < b.price
Less(sorting, a, b) ==
    CASE sorting = "SortByMostRecent" -> DateTimeOf(a) > DateTimeOf(b)
      [] sorting = "SortByOldest" -> DateTimeOf(a) < DateTimeOf(b)
      [] sorting = "SortByAlphabeticalOrder" ->
           CompareCaseInsensitive(a.product_name, b.product_name) < 0
      [] sorting = "SortByPriceLowest" -> a.price < b.price
      [] sorting = "SortByPriceHighest" -> a.price > b.price

IndexPermutations(n) == {p \in [1..n -> 1..n] : \A i, j \in 1..n : p[i] = p[j] => i = j}

Permuted(catalog, p) == [i \in 1..Len(catalog) |-> catalog[p[i]]]

IsSortedBy(sorting, out) ==
    \A i, j \in 1..Len(out) : i < j => ~Less(sorting, out[j], out[i])

\* std::sort: the result is an ordering of the same elements in which no
\* element precedes one that compares less; the order of elements that compare
\* equal is unspecified, so every such ordering is a possible result.
MutStdSortAnyOrder(catalog, sorting) ==
    {Permuted(catalog, p) : p \in IndexPermutations(Len(catalog))}
StdSort(catalog, sorting) ==
    {out \in {Permuted(catalog, p) : p \in IndexPermutations(Len(catalog))} :
        IsSortedBy(sorting, out)}

\* The sortings for which the switch runs std::sort; every other value
\* (also one the switch has no case for) leaves the catalog as it is.
MutSortOutcomesDefaultSorts(catalog, sorting) ==
    StdSort(catalog, IF sorting \in ImplementedSortings THEN sorting
                     ELSE "SortByPriceLowest")
SortOutcomes(catalog, sorting) ==
    IF sorting \in ImplementedSortings THEN StdSort(catalog, sorting) ELSE {catalog}

\* getListings has a switch of its own, with its own comparators, and no case
\* for SortByAverageRating (which its default takes).
MutListingsLessOldestDescending(sorting, a, b) ==
    CASE sorting = "SortByMostRecent" -> DateTimeOf(a) > DateTimeOf(b)
      [] sorting = "SortByOldest" -> DateTimeOf(a) > DateTimeOf(b)
      [] sorting = "SortByAlphabeticalOrder" ->
           CompareCaseInsensitive(a.product_name, b.product_name) < 0
      [] sorting = "SortByPriceLowest" -> a.price < b.price
      [] sorting = "SortByPriceHighest" -> a.price > b.price
ListingsLess(sorting, a, b) ==
    CASE sorting = "SortByMostRecent" -> DateTimeOf(a) > DateTimeOf(b)
      [] sorting = "SortByOldest" -> DateTimeOf(a) < DateTimeOf(b)
      [] sorting = "SortByAlphabeticalOrder" ->
           CompareCaseInsensitive(a.product_name, b.product_name) < 0
      [] sorting = "SortByPriceLowest" -> a.price < b.price
      [] sorting = "SortByPriceHighest" -> a.price > b.price

ListingsSortOutcomes(catalog, sorting) ==
    CASE sorting \in {"SortNone", "SortByCategory"} -> {catalog}
      [] sorting \in {"SortByMostRecent", "SortByOldest", "SortByAlphabeticalOrder",
                      "SortByPriceLowest", "SortByPriceHighest"} ->
           {out \in {Permuted(catalog, p) : p \in IndexPermutations(Len(catalog))} :
               \A i, j \in 1..Len(out) : i < j => ~ListingsLess(sorting, out[j], out[i])}
      [] sorting \in {"SortByMostFavorited", "SortByMostSales"} -> {catalog}
      [] OTHER -> {catalog}

(***************************************************************************)
(* A resolver call.  resp gives the RemoteStore's response to the get of   *)
(* each enumerated key, pruned the keys whose remove the store carried     *)
(* out (it then drops the key's rows from the index).  An exception leaves *)
(* the method without a result.  getListings sorts what it collected;      *)
(* getUser returns one map, empty when nothing was projected.              *)
(***************************************************************************)
Unasked == Resp("unasked")

NoCall == [op |-> "none"]

\* The responses a get may draw in a call of op: every failure, a document the
\* op accepts, one whose metadata differs (with and without the fields the
\* op's projection requires) and one with the right metadata that lacks
\* required fields.
GoodListing == ListingDoc("listing", 1, Date1Z, <<"a">>, "Food", <<>>)
IllicitListing == ListingDoc("listing", 1, Date1Z, <<"a">>, "Food", <<IllicitCategory>>)
MistaggedListing == ListingDoc("user", 1, Date1Z, <<"a">>, "Food", <<>>)
NewerListing == ListingDoc("listing", 2, Date2Z, <<"B">>, "Food", <<>>)

Failures ==
    {Resp("malformed"), Resp("error"), Resp("badresponse"), Resp("noresponse"),
     Resp("novalue"), Resp("badvalue"), Resp("notobject")}

ResponsesFor(op) ==
    Failures \cup
    CASE op \in ListingOps ->
           {GoodListing, NewerListing, IllicitListing, MistaggedListing, UserDoc,
            IncompleteDoc("listing"), ProductlessListing}
      [] op = "getProductRatings" ->
           {RatingDoc("product_rating", 5, 0),
            [RatingDoc("product_rating", 5, 0) EXCEPT !.metadata = "seller_rating"],
            RatingDoc("seller_rating", 0, 1), IncompleteDoc("product_rating")}
      [] op = "getSellerRatings" ->
           {RatingDoc("seller_rating", 0, 1),
            [RatingDoc("seller_rating", 0, 1) EXCEPT !.metadata = "product_rating"],
            RatingDoc("product_rating", 5, 0), IncompleteDoc("seller_rating")}
      [] op = "getUser" ->
           {UserDoc, [UserDoc EXCEPT !.metadata = "listing"], GoodListing,
            IncompleteDoc("user")}
      [] op = "getStockAvailable" ->
           {GoodListing, [GoodListing EXCEPT !.quantity = 3], MistaggedListing,
            IncompleteDoc("listing"), ProductlessListing}

RealKeys(keys) == ToSet(keys) \ {NullKey}

Finish(op, acc) ==
    IF acc.status \in {"threw", "crashed"} THEN [acc EXCEPT !.catalog = <<>>]
    ELSE [acc EXCEPT !.status = "ok",
                     !.catalog = IF op = "getUser"
                                 THEN SelectSeq(@, LAMBDA v : v # EmptyView)
                                 ELSE @]

RemoveRows(idx, pruned) == SelectSeq(idx, LAMBDA row : row.key \notin pruned)

\* The ways the index query can fail before a row is stepped: the database
\* handle is missing, the statement does not prepare, a parameter does not
\* bind.  getListings binds nothing; getUser runs its query through
\* get_text_params and only tests the handle itself.
IndexFaults == {"none", "no_database", "prepare_failed", "bind_failed"}

ChecksDatabase(op) == op \notin RatingOps

FaultsOf(op) ==
    CASE op \in {"getUser", "getStockAvailable"} -> {"none", "no_database"}
      [] op = "getListings" -> {"none", "no_database", "prepare_failed"}
      [] OTHER -> IndexFaults

\* How a call ends when the index cannot be queried.  A missing handle makes
\* the resolvers that test it throw; the rating resolvers dereference it
\* untested, which ends the process or goes on to a failing prepare.  A
\* failed prepare or bind is printed and an empty result returned.
IndexFaultOutcomes(op, fault) ==
    CASE fault = "no_database" ->
           IF ChecksDatabase(op) THEN {"threw"} ELSE {"crashed", "ok"}
      [] OTHER -> {"ok"}

\* Where a call leaves its caller: a failed assert (or the dereference of a
\* null handle) ends the process, everything else gives control back.
After(status) == IF status = "crashed" THEN "crashed" ELSE "returned"

CallRecord(op, term, hide, sorting, fault, keys, resp, acc, catalog) ==
    [op |-> op, term |-> term, hide |-> hide, sorting |-> sorting,
     fault |-> fault, keys |-> keys,
     resp |-> [k \in Keys |-> IF k \in ToSet(acc.gets) THEN resp[k] ELSE Unasked],
     status |-> acc.status, collected |-> acc.catalog, catalog |-> catalog,
     stepped |-> acc.stepped, gets |-> acc.gets, removes |-> acc.removes,
     log |-> acc.log, pruned |-> acc.pruned]

Call(op, term, hide, sorting, responses) ==
    /\ UNCHANGED session
    /\ \E fault \in FaultsOf(op) :
      IF fault # "none"
      THEN \E status \in IndexFaultOutcomes(op, fault) :
             /\ last' = CallRecord(op, term, hide, sorting, fault, <<>>, <<>>,
                                   [StartAcc EXCEPT !.status = status], <<>>)
             /\ UNCHANGED index
             /\ pc' = After(status)
      ELSE LET keys == EnumerateKeys(op, term, index)
           IN  \E resp \in [RealKeys(keys) -> responses] :
               \E succeeds \in SUBSET RealKeys(keys) :
                 LET acc == Finish(op, ResolveKeys(op, hide, keys, resp, succeeds,
                                                   StartAcc))
                 IN  /\ succeeds \subseteq ToSet(acc.removes)
                     /\ \E sorted \in ListingsSortOutcomes(acc.catalog, sorting) :
                           last' = CallRecord(op, term, hide, sorting, fault, keys,
                                              resp, acc, sorted)
                     /\ index' = RemoveRows(index, acc.pruned)
                     /\ pc' = After(acc.status)

GetListings(sorting, hide, responses) ==
    /\ pc = "idle"
    /\ Call("getListings", <<>>, hide, sorting, responses)

MutGetListingsByCategoryRecentFirst(category, hide, responses) ==
    /\ pc = "idle"
    /\ Call("getListingsByCategory", category, hide, "SortByMostRecent", responses)
GetListingsByCategory(category, hide, responses) ==
    /\ pc = "idle"
    /\ Call("getListingsByCategory", category, hide, "SortNone", responses)

GetListingsBySearchTerm(searchTerm, hide, responses) ==
    /\ pc = "idle"
    /\ Call("getListingsBySearchTerm", searchTerm, hide, "SortNone", responses)

GetInventory(user_id, hide, responses) ==
    /\ pc = "idle"
    /\ Call("getInventory", user_id, hide, "SortNone", responses)

GetProductRatings(product_id, responses) ==
    /\ pc = "idle"
    /\ Call("getProductRatings", product_id, FALSE, "SortNone", responses)

GetSellerRatings(user_id, responses) ==
    /\ pc = "idle"
    /\ Call("getSellerRatings", user_id, FALSE, "SortNone", responses)

GetUser(user_id, responses) ==
    /\ pc = "idle"
    /\ Call("getUser", user_id, FALSE, "SortNone", responses)

\* getStockAvailable: the quantity of the listing under the first key the
\* index holds for the product, 0 when there is none.
StockAvailable(key, r, removed, acc) ==
    IF key = NullKey THEN [acc |-> acc, quantity |-> 0]
    ELSE LET fetched == OnGet(acc, key)
         IN  CASE r.kind = "malformed" -> [acc |-> Throw(fetched), quantity |-> 0]
               [] r.kind = "error" ->
                    [acc |-> OnError(fetched, key, removed), quantity |-> 0]
               [] r.kind = "badresponse" -> [acc |-> Throw(fetched), quantity |-> 0]
               [] r.kind = "noresponse" -> [acc |-> Abort(fetched), quantity |-> 0]
               [] r.kind = "novalue" -> [acc |-> fetched, quantity |-> 0]
               [] r.kind = "badvalue" -> [acc |-> Throw(fetched), quantity |-> 0]
               [] r.kind = "notobject" -> [acc |-> Abort(fetched), quantity |-> 0]
               [] r.kind = "doc" ->
                    IF r.metadata # "listing" THEN [acc |-> fetched, quantity |-> 0]
                    ELSE IF r.shape \in {"listing", "productless"}
                    THEN [acc |-> fetched, quantity |-> r.quantity]
                    ELSE [acc |-> Throw(fetched), quantity |-> 0]

GetStockAvailable(product_id, responses) ==
    /\ UNCHANGED session
    /\ pc = "idle"
    /\ \E fault \in FaultsOf("getStockAvailable") :
         LET keys == IF fault # "none" THEN <<>>
                     ELSE EnumerateKeys("getStockAvailable", product_id, index)
             key == IF keys = <<>> THEN NullKey ELSE keys[1]
         IN  \E resp \in [RealKeys(keys) -> responses], removed \in BOOLEAN :
               LET r == IF key = NullKey THEN Resp("novalue") ELSE resp[key]
                   out == IF fault # "none"
                          THEN [acc |-> Throw(StartAcc), quantity |-> 0]
                          ELSE StockAvailable(key, r, removed, StartAcc)
                   acc == out.acc
                   status == IF acc.status = "running" THEN "ok" ELSE acc.status
               IN  /\ removed => key \in ToSet(acc.removes)
                   /\ last' = [op |-> "getStockAvailable", term |-> product_id,
                               fault |-> fault, keys |-> keys,
                               resp |-> [k \in Keys |-> IF k \in ToSet(acc.gets)
                                                        THEN resp[k] ELSE Unasked],
                               status |-> status, result |-> out.quantity,
                               gets |-> acc.gets, removes |-> acc.removes,
                               log |-> acc.log, pruned |-> acc.pruned]
                   /\ index' = RemoveRows(index, acc.pruned)
                   /\ pc' = After(status)

Return ==
    /\ UNCHANGED session
    /\ pc = "returned"
    /\ pc' = "idle"
    /\ last' = NoCall
    /\ UNCHANGED index

(***************************************************************************)
(* Catalog resolution: the index holds at most MaxRows rows of one content *)
(* type, under any terms and keys.                                         *)
(***************************************************************************)
RowsOf(content) == {row \in Rows : row.content = content}

\* The sortings getListings is called with here: none, one the switch
\* implements and one it does not (SpecSort calls it with every sorting).
ResolutionSortings == {"SortNone", "SortByPriceLowest", "SortByCategory"}

IndexStates == UNION {[1..n -> RowsOf(content)] : n \in 0..MaxRows, content \in Contents}

Init ==
    /\ session = NoSession
    /\ index \in IndexStates
    /\ pc = "idle"
    /\ last = NoCall

Next ==
    \/ \E sorting \in ResolutionSortings, hide \in BOOLEAN :
          GetListings(sorting, hide, ResponsesFor("getListings"))
    \/ \E term \in Terms, hide \in BOOLEAN :
          GetListingsByCategory(term, hide, ResponsesFor("getListingsByCategory"))
    \/ \E term \in Terms, hide \in BOOLEAN :
          GetListingsBySearchTerm(term, hide, ResponsesFor("getListingsBySearchTerm"))
    \/ \E term \in Terms, hide \in BOOLEAN :
          GetInventory(term, hide, ResponsesFor("getInventory"))
    \/ \E term \in Terms : GetProductRatings(term, ResponsesFor("getProductRatings"))
    \/ \E term \in Terms : GetSellerRatings(term, ResponsesFor("getSellerRatings"))
    \/ \E term \in Terms : GetUser(term, ResponsesFor("getUser"))
    \/ \E term \in Terms : GetStockAvailable(term, ResponsesFor("getStockAvailable"))
    \/ Return

Spec == Init /\ [][Next]_vars

(***************************************************************************)
(* Resolution passes that keep occurring, over an index of listing or of   *)
(* product rating rows: getListingsByCategory and getProductRatings are    *)
(* called again and again, a key's fetch reporting an error, a document or *)
(* text that does not parse.  A call that has returned gives control back  *)
(* to its caller.                                                          *)
(***************************************************************************)
HealContents == {"listing", "product_rating"}

HealResponses(op) ==
    {Resp("error"), Resp("malformed"),
     IF op = "getProductRatings" THEN RatingDoc("product_rating", 5, 0) ELSE GoodListing}

HealIndexes == UNION {[1..n -> RowsOf(content)] : n \in 0..MaxRows, content \in HealContents}

InitHeal ==
    /\ session = NoSession
    /\ index \in HealIndexes
    /\ pc = "idle"
    /\ last = NoCall

NextHeal ==
    \/ \E term \in Terms :
          GetListingsByCategory(term, FALSE, HealResponses("getListingsByCategory"))
    \/ \E term \in Terms : GetProductRatings(term, HealResponses("getProductRatings"))
    \/ Return

SpecHeal == InitHeal /\ [][NextHeal]_vars /\ WF_vars(Return)

(***************************************************************************)
(* uploadImageToObject: the piece size is chosen by tiers of the file      *)
(* size, FilePieceHasher splits and hashes the file, and the descriptor is *)
(* assembled from the pieces.  A file is its size in bytes and whether it  *)
(* can be read; a digest is modelled by what was hashed.                   *)
(***************************************************************************)
MaxImageSize == 2097152
DefaultPieceSize == 16384

MutPieceSizeExclusive(size) ==
    LET MEGABYTE == MaxImageSize \div 2
    IN  IF size > MaxImageSize THEN MEGABYTE
        ELSE IF size > MEGABYTE THEN 524288
        ELSE IF size > 524288 THEN 262144
        ELSE IF size > 262144 THEN 131072
        ELSE IF size > 131072 THEN 65536
        ELSE IF size > 65536 THEN 32768
        ELSE IF size > 32768 THEN 16384
        ELSE DefaultPieceSize
MutPieceSizeFloor32K(size) ==
    LET MEGABYTE == MaxImageSize \div 2
    IN  IF size >= MaxImageSize THEN MEGABYTE
        ELSE IF size >= MEGABYTE THEN 524288
        ELSE IF size >= 524288 THEN 262144
        ELSE IF size >= 262144 THEN 131072
        ELSE IF size >= 131072 THEN 65536
        ELSE 32768
MutPieceSizeHalved(size) ==
    LET MEGABYTE == MaxImageSize \div 2
    IN  IF size >= MaxImageSize THEN 524288
        ELSE IF size >= MEGABYTE THEN 262144
        ELSE IF size >= 524288 THEN 131072
        ELSE IF size >= 262144 THEN 65536
        ELSE IF size >= 131072 THEN 32768
        ELSE DefaultPieceSize
PieceSize(size) ==
    LET MEGABYTE == MaxImageSize \div 2
    IN  IF size >= MaxImageSize THEN MEGABYTE
        ELSE IF size >= MEGABYTE THEN 524288
        ELSE IF size >= 524288 THEN 262144
        ELSE IF size >= 262144 THEN 131072
        ELSE IF size >= 131072 THEN 65536
        ELSE IF size >= 65536 THEN 32768
        ELSE IF size >= 32768 THEN 16384
        ELSE DefaultPieceSize

Sha256(what) == <<"sha256", what>>

\* FilePiece::data: the bytes of a piece, named by the file and the range
\* they cover.
PieceData(file, offset, bytes) == [of |-> file.stem, from |-> offset, bytes |-> bytes]

\* FilePieceHasher::hash_file: consecutive pieces of piece_size bytes, the last
\* one holding the remainder, each with the hash of its bytes; no piece for an
\* empty or unreadable file.
HashFile(file, piece_size) ==
    IF ~file.readable \/ file.size = 0 THEN <<>>
    ELSE [i \in 1..((file.size + piece_size - 1) \div piece_size) |->
            LET offset == (i - 1) * piece_size
                bytes == IF file.size - offset < piece_size
                         THEN file.size - offset ELSE piece_size
            IN  [index |-> i - 1, offset |-> offset, bytes |-> bytes,
                 hash |-> Sha256(PieceData(file, offset, bytes))]]

RECURSIVE SumBytes(_)
MutSumBytesLastOnly(pieces) ==
    IF pieces = <<>> THEN 0 ELSE pieces[Len(pieces)].bytes
SumBytes(pieces) ==
    IF pieces = <<>> THEN 0 ELSE pieces[1].bytes + SumBytes(Tail(pieces))

PiecesList(pieces) == [i \in 1..Len(pieces) |-> pieces[i].hash]

\* return {}: a map without members.
EmptyImage == <<>>

ImageObject(file, imageId, piece_size, pieces) ==
    [name |-> <<Sha256(file.stem), file.ext>>, size |-> SumBytes(pieces), id |-> imageId,
     piece_size |-> piece_size, pieces |-> PiecesList(pieces)]

MutUploadAlwaysDescribes(file, imageId) ==
    /\ UNCHANGED session
    /\ pc = "idle"
    /\ LET piece_size == PieceSize(file.size)
           file_pieces == HashFile(file, piece_size)
       IN  last' = [op |-> "uploadImageToObject", file |-> file, piece_size |-> piece_size,
                    file_pieces |-> file_pieces, status |-> "ok",
                    image |-> ImageObject(file, imageId, piece_size, file_pieces)]
    /\ pc' = "returned"
    /\ UNCHANGED index
UploadImageToObject(file, imageId) ==
    /\ UNCHANGED session
    /\ pc = "idle"
    /\ LET piece_size == PieceSize(file.size)
           file_pieces == HashFile(file, piece_size)
           asserted == SumBytes(file_pieces) = file.size
       IN  last' = [op |-> "uploadImageToObject", file |-> file, piece_size |-> piece_size,
                    file_pieces |-> file_pieces,
                    status |-> IF file_pieces # <<>> /\ ~asserted
                               THEN "assertion failed" ELSE "ok",
                    image |-> IF file_pieces = <<>> \/ ~asserted THEN EmptyImage
                              ELSE ImageObject(file, imageId, piece_size, file_pieces)]
    /\ pc' = "returned"
    /\ UNCHANGED index

(***************************************************************************)
(* Uploads of files of the sampled sizes: every multiple of SizeStep up to *)
(* MaxSizeSteps steps, each tier threshold with its neighbours, and the    *)
(* 600,000 bytes of the worked example, readable or not.                   *)
(***************************************************************************)
SizeStep == 8192
MaxSizeSteps == 320

Thresholds == {16384, 32768, 65536, 131072, 262144, 524288, 1048576, 2097152}

FileSizes ==
    {k * SizeStep : k \in 0..MaxSizeSteps}
        \cup UNION {{t - 1, t, t + 1} : t \in Thresholds}
        \cup {1, 600000}

Files ==
    [size : FileSizes, readable : BOOLEAN, stem : {"photo"}, ext : {"png"}]

InitUpload ==
    /\ session = NoSession
    /\ index = <<>>
    /\ pc = "idle"
    /\ last = NoCall

NextUpload ==
    \/ \E file \in Files : UploadImageToObject(file, 0)
    \/ Return

SpecUpload == InitUpload /\ [][NextUpload]_vars

(***************************************************************************)
(* sortBy(catalog, sorting): sorts a copy of the catalog, as the switch of *)
(* getListings sorts the catalog it built.                                 *)
(***************************************************************************)
\* sortBy works on a copy of its argument: argument is the caller's catalog
\* after the call.
SortBy(catalog, sorting) ==
    /\ UNCHANGED session
    /\ pc = "idle"
    /\ \E sortedCatalog \in SortOutcomes(catalog, sorting) :
          last' = [op |-> "sortBy", sorting |-> sorting, input |-> catalog,
                   argument |-> catalog, status |-> "ok", catalog |-> sortedCatalog]
    /\ pc' = "returned"
    /\ UNCHANGED index

(***************************************************************************)
(* Sorting: sortBy over every catalog of at most MaxCatalog listings, and  *)
(* getListings with every sorting over an index of listing keys whose      *)
(* documents are fetched intact.  The listings differ in price, date and   *)
(* name so that each sort key has ties and strict orderings.               *)
(***************************************************************************)
MaxCatalog == 3

Payloads ==
    {[price |-> 1, date |-> Date1Z, name |-> <<"a">>],
     [price |-> 1, date |-> Date1Utc, name |-> <<"A">>],
     [price |-> 2, date |-> Date1Plus1, name |-> <<"a", "b">>],
     [price |-> 3, date |-> Date2Z, name |-> <<"B">>]}

ListingView(key, payload) ==
    [EmptyView EXCEPT !.key = key, !.price = payload.price, !.date = payload.date,
                      !.product_name = payload.name,
                      !.product_categories = <<"Food">>]

Catalogs ==
    UNION {{[i \in 1..n |-> ListingView(i, f[i])] : f \in [1..n -> Payloads]} :
             n \in 0..MaxCatalog}

SortResponses ==
    {ListingDoc("listing", p.price, p.date, p.name, "Food", <<>>) : p \in Payloads}

ListingIndexes ==
    {[i \in 1..n |-> [term |-> <<"a">>, content |-> "listing", key |-> i]] :
        n \in 0..NumKeys}

InitSort ==
    /\ session = NoSession
    /\ index \in ListingIndexes
    /\ pc = "idle"
    /\ last = NoCall

NextSort ==
    \/ \E catalog \in Catalogs, sorting \in Sortings : SortBy(catalog, sorting)
    \/ \E sorting \in Sortings, hide \in BOOLEAN : GetListings(sorting, hide, SortResponses)
    \/ Return

SpecSort == InitSort /\ [][NextSort]_vars

(***************************************************************************)
(* getListings with every sorting over an index of listing keys, the gets  *)
(* answered by intact listings, by illicit ones and by errors (whose keys  *)
(* the call removes).                                                      *)
(***************************************************************************)
ListingResponses == SortResponses \cup {IllicitListing, Resp("error")}

NextListings ==
    \/ \E sorting \in Sortings, hide \in BOOLEAN :
          GetListings(sorting, hide, ListingResponses)
    \/ Return

SpecListings == InitSort /\ [][NextListings]_vars

(***************************************************************************)
(* getListingsByMostRecent: getListings sorted by most recent, cut to      *)
(* limit entries with QList::mid when it has more than limit.              *)
(***************************************************************************)
\* QList::mid(pos, length): length entries from pos on (counted from 0), and
\* all entries from pos on when length is negative or reaches past the end.
Mid(list, pos, length) ==
    IF pos >= Len(list) THEN <<>>
    ELSE LET len == IF length < 0 \/ pos + length > Len(list)
                    THEN Len(list) - pos ELSE length
         IN  SubSeq(list, pos + 1, pos + len)

Truncate(catalog, limit) ==
    IF Len(catalog) > limit THEN Mid(catalog, 0, limit) ELSE catalog

GetListingsByMostRecent(limit, hide_illicit_items, responses) ==
    /\ UNCHANGED session
    /\ pc = "idle"
    /\ \E fault \in FaultsOf("getListings") :
         IF fault # "none"
         THEN \E status \in IndexFaultOutcomes("getListings", fault) :
                /\ last' = [op |-> "getListingsByMostRecent", limit |-> limit,
                            hide |-> hide_illicit_items, fault |-> fault,
                            status |-> status, gets |-> <<>>, removes |-> <<>>,
                            listings |-> <<>>,
                            catalog |-> IF status = "threw" THEN <<>>
                                        ELSE Truncate(<<>>, limit)]
                /\ UNCHANGED index
                /\ pc' = After(status)
         ELSE LET keys == EnumerateKeys("getListings", <<>>, index)
              IN  \E resp \in [RealKeys(keys) -> responses] :
                  \E succeeds \in SUBSET RealKeys(keys) :
                    LET acc == Finish("getListings",
                                      ResolveKeys("getListings", hide_illicit_items, keys,
                                                  resp, succeeds, StartAcc))
                    IN  /\ succeeds \subseteq ToSet(acc.removes)
                        /\ \E sorted \in ListingsSortOutcomes(acc.catalog,
                                                               "SortByMostRecent") :
                              last' = [op |-> "getListingsByMostRecent", limit |-> limit,
                                       hide |-> hide_illicit_items, fault |-> fault,
                                       status |-> acc.status, gets |-> acc.gets,
                                       removes |-> acc.removes, listings |-> sorted,
                                       catalog |-> IF acc.status # "ok" THEN <<>>
                                                   ELSE Truncate(sorted, limit)]
                        /\ index' = RemoveRows(index, acc.pruned)
                        /\ pc' = After(acc.status)

MaxLimit == 3

Limits == (0 - MaxLimit)..MaxLimit

NextMostRecent ==
    \/ \E limit \in Limits, hide \in BOOLEAN :
          GetListingsByMostRecent(limit, hide, ListingResponses)
    \/ Return

SpecMostRecent == InitSort /\ [][NextMostRecent]_vars

(***************************************************************************)
(* Accounts: registerUser and the logins.  env gives what the              *)
(* collaborators answer during the call: whether the daemon's IPC server   *)
(* is bound, whether the database handle exists, the outcome of each       *)
(* validation and key operation, whether Seller::on_login yields a user    *)
(* (seller), and whether the client is connected.  log lists the steps of  *)
(* the call in the order they happen.  A login whose caller waits for its  *)
(* worker thread is at pc "waiting", then "ready" once the worker is done. *)
(***************************************************************************)
Outcome(status, result, message, s, log) ==
    [status |-> status, result |-> result, message |-> message, session |-> s,
     log |-> log]

KeyFiles(primary_address) == {<<primary_address, "pub">>, <<primary_address, "key">>}

Register(env, primary_address, s) ==
    IF ~env.daemon_bound
    THEN Outcome("ok", FALSE, "Please wait for the local daemon IPC server to connect first",
                 s, <<"isDaemonServerBound">>)
    ELSE IF ~env.database
    THEN Outcome("threw", FALSE, "database is NULL", s, <<"isDaemonServerBound">>)
    ELSE IF ~env.name_valid
    THEN Outcome("ok", FALSE, "invalid display name", s,
                 <<"isDaemonServerBound", "validateDisplayName">>)
    ELSE IF ~env.address_valid
    THEN Outcome("ok", FALSE, "Invalid monero address", s,
                 <<"isDaemonServerBound", "validateDisplayName", "is_valid_address">>)
    ELSE IF ~env.keys_generated
    THEN Outcome("ok", FALSE, "Failed to generate RSA key pair", s,
                 <<"isDaemonServerBound", "validateDisplayName", "is_valid_address",
                   "rsa_generate_keys_get">>)
    ELSE IF ~env.keys_saved
    THEN Outcome("ok", FALSE, "Failed to save RSA key pair", s,
                 <<"isDaemonServerBound", "validateDisplayName", "is_valid_address",
                   "rsa_generate_keys_get", "rsa_save_keys">>)
    ELSE LET saved == [s EXCEPT !.key_files = @ \cup KeyFiles(primary_address)]
             installed == [saved EXCEPT !.installs = @ + 1,
                                        !.user = IF env.seller THEN
                                                    [id |-> primary_address,
                                                     by |-> "registerUser"]
                                                 ELSE NoUser]
             steps == <<"isDaemonServerBound", "validateDisplayName", "is_valid_address",
                        "rsa_generate_keys_get", "rsa_save_keys", "install">>
         IN  IF ~env.seller
             THEN Outcome("ok", FALSE, "user is NULL", installed, steps)
             ELSE IF ~env.connected
             THEN Outcome("ok", FALSE, "Not connected to local daemon IPC server",
                          installed, Append(steps, "is_connected"))
             ELSE Outcome("ok", TRUE, "key",
                          [installed EXCEPT
                              !.puts = Append(@, primary_address),
                              !.cart = Append(@, primary_address),
                              !.signals = @ \o <<"userChanged", "userLogged">>],
                          steps \o <<"is_connected", "put", "insert cart",
                                     "userChanged", "userLogged">>)

\* The collaborators' answers during a call.
Environments ==
    [daemon_bound : BOOLEAN, database : BOOLEAN, name_valid : BOOLEAN,
     address_valid : BOOLEAN, keys_generated : BOOLEAN, keys_saved : BOOLEAN,
     seller : BOOLEAN, connected : BOOLEAN]

\* The number of times the current user is assigned in a behaviour.
MaxInstalls == 2

RegisterUser(primary_address, env) ==
    /\ pc = "idle"
    /\ session.installs < MaxInstalls
    /\ LET out == Register(env, primary_address, session)
       IN  /\ last' = [op |-> "registerUser", primary_address |-> primary_address,
                       before |-> session, status |-> out.status,
                       result |-> out.result, message |-> out.message,
                       log |-> out.log]
           /\ session' = out.session
    /\ pc' = "returned"
    /\ UNCHANGED index

\* The values the wallet controller's open, restoreFromSeed and
\* restoreFromKeys return: 0, the errors the logins translate, and any other
\* value.
WalletErrors ==
    {"Ok", "WrongPassword", "IsOpenedByAnotherProgram", "DoesNotExist",
     "InvalidMnemonic", "BadNetworkType", "IsNotOpened", "BadWalletType", "Unlisted"}

\* The task loginWithWalletFile runs on the worker thread: the login error
\* for a wallet error.
OpenWalletTask(wallet_error) ==
    IF wallet_error # "Ok"
    THEN CASE wallet_error = "WrongPassword" -> "WrongPassword"
           [] wallet_error = "IsOpenedByAnotherProgram" -> "WalletIsOpenedByAnotherProgram"
           [] wallet_error = "DoesNotExist" -> "WalletDoesNotExist"
           [] wallet_error = "BadNetworkType" -> "WalletBadNetworkType"
           [] wallet_error = "IsNotOpened" -> "WalletIsNotOpened"
           [] wallet_error = "BadWalletType" -> "WalletBadWalletType"
           [] OTHER -> "Ok"
    ELSE "Ok"

\* The task loginWithMnemonic runs on the worker thread.
RestoreWalletTask(wallet_error) ==
    IF wallet_error # "Ok"
    THEN CASE wallet_error = "IsOpenedByAnotherProgram" -> "WalletIsOpenedByAnotherProgram"
           [] wallet_error = "InvalidMnemonic" -> "WalletInvalidMnemonic"
           [] wallet_error = "BadNetworkType" -> "WalletBadNetworkType"
           [] wallet_error = "IsNotOpened" -> "WalletIsNotOpened"
           [] wallet_error = "BadWalletType" -> "WalletBadWalletType"
           [] OTHER -> "Ok"
    ELSE "Ok"

UserFound(idx, primary_address) ==
    \E i \in 1..Len(idx) : idx[i].term = primary_address /\ idx[i].content = "user"

\* A login from the return of future_result.get() on.
LoggedIn(op, seller, login_error, primary_address, idx, s, log) ==
    IF login_error # "Ok"
    THEN Outcome("ok", login_error, "", s, log)
    ELSE IF ~UserFound(idx, primary_address)
    THEN Outcome("ok", "UserNotFound", "", [s EXCEPT !.wallet = "closed"],
                 log \o <<"user_found", "close">>)
    ELSE LET installed ==
                 [s EXCEPT !.installs = @ + 1,
                           !.user = IF seller THEN
                                       [id |-> primary_address, by |-> op]
                                    ELSE NoUser]
             steps == log \o <<"user_found", "install">>
         IN  IF ~seller
             THEN Outcome("ok", "UserIsNullPointer", "", installed, steps)
             ELSE IF <<primary_address, "key">> \notin s.key_files
             THEN Outcome("threw", "none", "Failed to open private key file",
                          installed, steps)
             ELSE Outcome("ok", "Ok", "",
                          [installed EXCEPT
                              !.signals = @ \o <<"userChanged", "userLogged">>],
                          steps \o <<"userChanged", "userLogged">>)

\* A login up to the start of its worker thread: the database handle and the
\* daemon check.  "waiting" is the caller blocked in future_result.get().
StartLogin(op, primary_address, env) ==
    /\ pc = "idle"
    /\ session.installs < MaxInstalls
    /\ LET s == session
           out == IF ~env.database
                  THEN Outcome("threw", "none", "database is NULL", s, <<>>)
                  ELSE IF ~env.daemon_bound
                  THEN Outcome("ok", "DaemonIsNotConnected", "", s,
                               <<"isDaemonServerBound">>)
                  ELSE Outcome("waiting", "none", "", s, <<"isDaemonServerBound">>)
       IN  /\ last' = [op |-> op, primary_address |-> primary_address,
                       wallet_error |-> "pending", login_error |-> "pending",
                       user_found |-> FALSE,
                       before |-> session, status |-> out.status,
                       result |-> out.result, message |-> out.message,
                       log |-> out.log]
           /\ pc' = IF out.status = "waiting" THEN "waiting" ELSE "returned"
    /\ UNCHANGED <<index, session>>

LoginWithWalletFile(primary_address, env) ==
    StartLogin("loginWithWalletFile", primary_address, env)

LoginWithMnemonic(primary_address, env) ==
    StartLogin("loginWithMnemonic", primary_address, env)

\* The worker thread: the wallet controller's call and the translation of
\* its result, handed to the waiting caller through the future.
Worker(wallet_error) ==
    /\ pc = "waiting"
    /\ last.op \in {"loginWithWalletFile", "loginWithMnemonic"}
    /\ session' = IF wallet_error = "Ok" THEN [session EXCEPT !.wallet = "opened"]
                  ELSE session
    /\ last' = [last EXCEPT !.wallet_error = wallet_error,
                            !.login_error = IF last.op = "loginWithWalletFile"
                                            THEN OpenWalletTask(wallet_error)
                                            ELSE RestoreWalletTask(wallet_error),
                            !.log = Append(@, IF last.op = "loginWithWalletFile"
                                              THEN "open" ELSE "restoreFromSeed")]
    /\ pc' = "ready"
    /\ UNCHANGED index

\* The caller once future_result.get() has returned.
FutureGet(seller) ==
    /\ pc = "ready"
    /\ last.op \in {"loginWithWalletFile", "loginWithMnemonic"}
    /\ LET out == LoggedIn(last.op, seller, last.login_error, last.primary_address,
                           index, session, last.log)
       IN  /\ last' = [last EXCEPT !.user_found = UserFound(index, last.primary_address),
                                   !.status = out.status, !.result = out.result,
                                   !.message = out.message, !.log = out.log]
           /\ session' = out.session
    /\ pc' = "returned"
    /\ UNCHANGED index

\* loginWithKeys restores the wallet from keys read from standard input,
\* ignoring the result, and looks an empty key up in the users table, which
\* is no part of the index; it installs no user and emits no signal.  The
\* results are the ints of false and true.
LoginWithKeys(primary_address, wallet_error, user_key_found, env) ==
    /\ pc = "idle"
    /\ LET s == session
           restored == IF wallet_error = "Ok" THEN [s EXCEPT !.wallet = "opened"]
                       ELSE s
           out == IF ~env.database
                  THEN Outcome("threw", "none", "database is NULL", s, <<>>)
                  ELSE IF ~user_key_found
                  THEN Outcome("ok", "false", "", [restored EXCEPT !.wallet = "closed"],
                               <<"restoreFromKeys", "user_key_found", "close">>)
                  ELSE Outcome("ok", "true", "", restored,
                               <<"restoreFromKeys", "user_key_found">>)
       IN  /\ last' = [op |-> "loginWithKeys", primary_address |-> primary_address,
                       wallet_error |-> wallet_error,
                       login_error |-> "none", user_found |-> user_key_found,
                       before |-> session, status |-> out.status,
                       result |-> out.result, message |-> out.message,
                       log |-> out.log]
           /\ session' = out.session
    /\ pc' = "returned"
    /\ UNCHANGED index

UserIndexes == {<<>>} \cup {<<row>> : row \in RowsOf("user")}

InitAccount ==
    /\ index \in UserIndexes
    /\ pc = "idle"
    /\ last = NoCall
    /\ session = NoSession

NextAccount ==
    \/ \E primary_address \in Terms, env \in Environments :
          RegisterUser(primary_address, env)
    \/ \E primary_address \in Terms, env \in Environments :
          LoginWithWalletFile(primary_address, env)
    \/ \E primary_address \in Terms, env \in Environments :
          LoginWithMnemonic(primary_address, env)
    \/ \E wallet_error \in WalletErrors : Worker(wallet_error)
    \/ \E seller \in BOOLEAN : FutureGet(seller)
    \/ \E primary_address \in Terms, wallet_error \in WalletErrors,
          user_key_found \in BOOLEAN, env \in Environments :
          LoginWithKeys(primary_address, wallet_error, user_key_found, env)
    \/ Return

SpecAccount == InitAccount /\ [][NextAccount]_vars

(***************************************************************************)
(* Binary floating point.  A positive value is a record of its significand *)
(* m, a sequence of bits with the most significant (a 1) first, and an     *)
(* exponent e: the value is m, read as a binary number, times 2^e.  Zero   *)
(* has no bits.  Results are rounded to p bits, to nearest, ties to even   *)
(* (p = 53 for double, 24 for float).                                      *)
(***************************************************************************)
DoubleBits == 53
FloatBits == 24

\* The digits of a quotient are produced, and a significand multiplied, in
\* limbs of LimbBits bits, so that every intermediate number stays below 2^31.
LimbBits == 15

\* More fraction bits than any quotient n/d with d < 2^MaxLeadingZeros has
\* zeros before its first 1.
MaxLeadingZeros == 8

FpZero == [m |-> <<>>, e |-> 0]

RECURSIVE Pow2(_)
Pow2(k) == IF k = 0 THEN 1 ELSE 2 * Pow2(k - 1)

\* The w lowest bits of v.
BitsOf(v, w) == [i \in 1..w |-> (v \div Pow2(w - i)) % 2]

StripZeros(b) ==
    IF \A i \in 1..Len(b) : b[i] = 0 THEN <<>>
    ELSE LET first == CHOOSE i \in 1..Len(b) : b[i] = 1 /\ \A j \in 1..(i - 1) : b[j] = 0
         IN  SubSeq(b, first, Len(b))

ToBits(n) == StripZeros(BitsOf(n, 2 * LimbBits))

RECURSIVE FromBits(_)
FromBits(b) ==
    IF b = <<>> THEN 0
    ELSE IF Len(b) = 1 THEN b[1]
    ELSE LET half == Len(b) \div 2
         IN  FromBits(SubSeq(b, 1, half)) * Pow2(Len(b) - half)
                + FromBits(SubSeq(b, half + 1, Len(b)))

Front(b) == SubSeq(b, 1, Len(b) - 1)

Increment(b) ==
    IF \A i \in 1..Len(b) : b[i] = 1 THEN <<1>> \o [i \in 1..Len(b) |-> 0]
    ELSE LET last0 == CHOOSE i \in 1..Len(b) :
                         b[i] = 0 /\ \A j \in (i + 1)..Len(b) : b[j] = 1
         IN  [i \in 1..Len(b) |-> IF i < last0 THEN b[i] ELSE IF i = last0 THEN 1 ELSE 0]

\* The binary digits of r/d after the point, limbs * LimbBits of them
\* (r < d), and what is left of r after them.
RECURSIVE FractionBits(_, _, _)
FractionBits(r, d, limbs) ==
    IF limbs = 0 THEN <<>>
    ELSE BitsOf((r * Pow2(LimbBits)) \div d, LimbBits)
            \o FractionBits((r * Pow2(LimbBits)) % d, d, limbs - 1)

RECURSIVE FractionRest(_, _, _)
FractionRest(r, d, limbs) ==
    IF limbs = 0 THEN r ELSE FractionRest((r * Pow2(LimbBits)) % d, d, limbs - 1)

\* bits times the small number k, plus carry.
RECURSIVE TimesSmall(_, _, _)
TimesSmall(b, k, carry) ==
    IF b = <<>> THEN ToBits(carry)
    ELSE LET w == IF Len(b) < LimbBits THEN Len(b) ELSE LimbBits
             v == FromBits(SubSeq(b, Len(b) - w + 1, Len(b))) * k + carry
         IN  TimesSmall(SubSeq(b, 1, Len(b) - w), k, v \div Pow2(w)) \o BitsOf(v % Pow2(w), w)

\* Rounds digits * 2^e, plus something below the last digit when sticky, to
\* p bits.
MutFpRoundTruncates(digits, sticky, e, p) ==
    LET d == StripZeros(digits)
    IN  IF d = <<>> THEN FpZero
        ELSE IF Len(d) <= p THEN [m |-> d, e |-> e]
        ELSE [m |-> SubSeq(d, 1, p), e |-> e + (Len(d) - p)]
FpRound(digits, sticky, e, p) ==
    LET d == StripZeros(digits)
    IN  IF d = <<>> THEN FpZero
        ELSE IF Len(d) <= p THEN [m |-> d, e |-> e]
        ELSE LET keep == SubSeq(d, 1, p)
                 guard == d[p + 1]
                 rest == sticky \/ \E i \in (p + 2)..Len(d) : d[i] = 1
                 up == guard = 1 /\ (rest \/ keep[p] = 1)
                 m == IF up THEN Increment(keep) ELSE keep
             IN  IF Len(m) > p THEN [m |-> Front(m), e |-> e + (Len(d) - p) + 1]
                 ELSE [m |-> m, e |-> e + (Len(d) - p)]

\* n / d for integers n >= 0, d > 0 that the format holds exactly.
FpDivide(n, d, p) ==
    LET limbs == (p + 1 + MaxLeadingZeros) \div LimbBits + 1
    IN  FpRound(ToBits(n \div d) \o FractionBits(n % d, d, limbs),
                FractionRest(n % d, d, limbs) # 0, 0 - limbs * LimbBits, p)

\* x * k for a small integer k.
FpTimes(x, k, p) == FpRound(TimesSmall(x.m, k, 0), FALSE, x.e, p)

\* static_cast<int>: the integer part of a value below 2^31.
FpToInt(x) ==
    IF x.e >= 0 THEN FromBits(x.m) * Pow2(x.e)
    ELSE IF Len(x.m) + x.e <= 0 THEN 0
    ELSE FromBits(SubSeq(x.m, 1, Len(x.m) + x.e))

(***************************************************************************)
(* The aggregation helpers over a materialized rating collection.          *)
(***************************************************************************)
ScoreCount(seller_ratings, score) ==
    Cardinality({i \in 1..Len(seller_ratings) : seller_ratings[i].score = score})

StarCount(product_ratings, stars) ==
    Cardinality({i \in 1..Len(product_ratings) : product_ratings[i].stars = stars})

GetSellerReputation(seller_ratings) ==
    /\ UNCHANGED session
    /\ pc = "idle"
    /\ LET ratings_count == Len(seller_ratings)
           good_ratings_count == ScoreCount(seller_ratings, 1)
           reputation == FpTimes(FpDivide(good_ratings_count, ratings_count, DoubleBits),
                                 100, DoubleBits)
       IN  last' = [op |-> "getSellerReputation", input |-> seller_ratings,
                    status |-> "ok",
                    result |-> IF ratings_count <= 0 THEN 0 ELSE FpToInt(reputation)]
    /\ pc' = "returned"
    /\ UNCHANGED index

StarSum(product_ratings) ==
    1 * StarCount(product_ratings, 1)
      + 2 * StarCount(product_ratings, 2)
      + 3 * StarCount(product_ratings, 3)
      + 4 * StarCount(product_ratings, 4)
      + 5 * StarCount(product_ratings, 5)

GetProductAverageStars(product_ratings) ==
    /\ UNCHANGED session
    /\ pc = "idle"
    /\ LET total_star_ratings == Len(product_ratings)
       IN  last' = [op |-> "getProductAverageStars", input |-> product_ratings,
                    status |-> "ok",
                    result |-> IF total_star_ratings = 0 THEN FpZero
                               ELSE FpDivide(StarSum(product_ratings),
                                             total_star_ratings, FloatBits)]
    /\ pc' = "returned"
    /\ UNCHANGED index

\* getProductStarCount(product_ratings, star_number)
ClampStars(star_number) ==
    IF star_number > 5 THEN 5 ELSE IF star_number < 1 THEN 1 ELSE star_number

GetProductStarCount(product_ratings, star_number) ==
    /\ UNCHANGED session
    /\ pc = "idle"
    /\ last' = [op |-> "getProductStarCount", input |-> product_ratings,
                star_number |-> star_number, status |-> "ok",
                result |-> StarCount(product_ratings, ClampStars(star_number))]
    /\ pc' = "returned"
    /\ UNCHANGED index

\* getProductStarCount(product_id, star_number): one activation.  It resolves
\* the product's ratings and then calls itself with its own arguments, so
\* each activation starts another one; depth counts the activations on the
\* stack, which is exhausted at MaxDepth.  An exception thrown by
\* getProductRatings unwinds every activation and leaves the method.
MaxDepth == 2

GetProductStarCountById(product_id, star_number) ==
    /\ UNCHANGED session
    /\ \/ pc = "idle"
       \/ /\ pc = "recursing"
          /\ last.product_id = product_id /\ last.star_number = star_number
    /\ LET depth == IF pc = "idle" THEN 0 ELSE last.depth
           calls == IF pc = "idle" THEN 0 ELSE last.calls
           keys == EnumerateKeys("getProductRatings", product_id, index)
           frame == [op |-> "getProductStarCountById", product_id |-> product_id,
                     star_number |-> star_number, depth |-> depth, calls |-> calls,
                     status |-> "running"]
       IN  IF depth = MaxDepth
           THEN /\ last' = [frame EXCEPT !.status = "crashed"]
                /\ pc' = "crashed"
                /\ UNCHANGED index
           ELSE \E resp \in [RealKeys(keys) -> ResponsesFor("getProductRatings")] :
                \E succeeds \in SUBSET RealKeys(keys) :
                  LET acc == Finish("getProductRatings",
                                    ResolveKeys("getProductRatings", FALSE, keys, resp,
                                                succeeds, StartAcc))
                  IN  /\ succeeds \subseteq ToSet(acc.removes)
                      /\ index' = RemoveRows(index, acc.pruned)
                      /\ IF acc.status \in {"threw", "crashed"}
                         THEN /\ last' = [frame EXCEPT !.status = acc.status,
                                                       !.calls = calls + 1]
                              /\ pc' = After(acc.status)
                         ELSE /\ last' = [frame EXCEPT !.depth = depth + 1,
                                                       !.calls = calls + 1]
                              /\ pc' = "recursing"

(***************************************************************************)
(* Rating aggregation: reputation over collections of up to MaxRatings     *)
(* seller ratings, good ones first; average and star counts over every     *)
(* collection of up to MaxStarRatings product ratings with stars 0 (an     *)
(* entry without stars) to 6.                                              *)
(***************************************************************************)
MaxRatings == 50
MaxStarRatings == 3

SellerRating(score) == [EmptyView EXCEPT !.key = 1, !.score = score]

ProductRating(stars) == [EmptyView EXCEPT !.key = 1, !.stars = stars]

SellerRatingLists ==
    {[i \in 1..n |-> SellerRating(IF i <= good THEN 1 ELSE 0)] :
        n \in 0..MaxRatings, good \in 0..MaxRatings} 

ProductRatingLists ==
    UNION {{[i \in 1..n |-> ProductRating(f[i])] : f \in [1..n -> 0..6]} :
             n \in 0..MaxStarRatings}

StarNumbers == {0, 1, 3, 5, 6}

InitRatings ==
    /\ session = NoSession
    /\ index = <<>>
    /\ pc = "idle"
    /\ last = NoCall

NextRatings ==
    \/ \E seller_ratings \in SellerRatingLists : GetSellerReputation(seller_ratings)
    \/ \E product_ratings \in ProductRatingLists : GetProductAverageStars(product_ratings)
    \/ \E product_ratings \in ProductRatingLists, star_number \in StarNumbers :
          GetProductStarCount(product_ratings, star_number)
    \/ Return

SpecRatings == InitRatings /\ [][NextRatings]_vars

(***************************************************************************)
(* The star count by product id, over an index of product rating rows:     *)
(* the method runs activation after activation once it has been called.    *)
(***************************************************************************)
RatingIndexes == UNION {[1..n -> RowsOf("product_rating")] : n \in 0..MaxRows}

InitStarCount ==
    /\ session = NoSession
    /\ index \in RatingIndexes
    /\ pc = "idle"
    /\ last = NoCall

NextStarCount ==
    \/ \E product_id \in Terms, star_number \in {3, 6} :
          GetProductStarCountById(product_id, star_number)
    \/ \E product_id \in Terms :
          GetProductRatings(product_id, ResponsesFor("getProductRatings"))
    \/ Return

\* A call that has entered the next activation runs on.
Running == pc = "recursing" /\ NextStarCount

SpecStarCount == InitStarCount /\ [][NextStarCount]_vars /\ WF_vars(Running)

(***************************************************************************)
(* Properties of catalog resolution.                                       *)
(***************************************************************************)
Returned(ops) == pc = "returned" /\ last.op \in ops

\* A call that is over: it returned, threw, or was ended by a failed assertion.
Ended(ops) == pc \in {"returned", "crashed"} /\ last.op \in ops

Fetched == ToSet(last.gets)
Enumerated == RealKeys(last.keys)
ErrorKeys == {k \in Fetched : last.resp[k].kind = "error"}
ViewKeys == {last.catalog[i].key : i \in 1..Len(last.catalog)}

Mistagged(k) ==
    /\ last.resp[k].kind = "doc"
    /\ last.resp[k].metadata # ExpectedContent(last.op)

Restricted(k) ==
    /\ last.resp[k].kind = "doc"
    /\ \/ last.resp[k].category = IllicitCategory
       \/ IllicitCategory \in ToSet(last.resp[k].subcategories)

\* The keys a call skips by design: a document with another metadata tag
\* (where the resolver tests the tag) or, under hide_illicit_items, a listing
\* of the restricted category.
SkippedKeys ==
    {k \in Fetched :
        \/ last.op # "getListingsBySearchTerm" /\ Mistagged(k)
        \/ last.op \in ListingOps /\ last.hide /\ Restricted(k)}

\* The keys whose documents the spec itself leaves out of a result: a document
\* with another metadata tag and, under hide_illicit_items, a listing of the
\* restricted category.
ExcludedKeys ==
    {k \in Fetched :
        \/ Mistagged(k)
        \/ last.op \in ListingOps /\ last.hide /\ Restricted(k)}

\* The entries of a result that are views: the maps that carry a document's
\* members.
Views == {i \in 1..Len(last.catalog) : last.catalog[i] # EmptyView}

\* C1: a call of a catalog resolver whose query enumerated N keys, M of them
\* with a fetch response reporting an error, returns exactly N - M views and
\* issues exactly M remove calls (stated for the calls none of whose documents
\* the metadata rule or the content policy excludes).
C1_ResolutionCount ==
    Ended(CatalogOps) /\ ExcludedKeys = {} =>
        /\ Cardinality(Views) = Cardinality(Enumerated) - Cardinality(ErrorKeys)
        /\ Len(last.removes) = Cardinality(ErrorKeys)

\* C2: in every resolver a fetched document whose metadata differs from the
\* content type the index query selected is absent from the result and no
\* remove is issued for its key.
C2_MetadataMismatchExcluded ==
    Returned(ResolverOps) =>
        \A k \in Fetched :
            Mistagged(k) => k \notin ViewKeys /\ k \notin ToSet(last.removes)

\* C3: a key whose fetch succeeds without a usable string value adds no entry
\* to the returned collection (every entry is the view of a fetched document)
\* and no remove is issued for it.
C3_NoValueSkipped ==
    Returned(ResolverOps) =>
        /\ \A i \in 1..Len(last.catalog) :
              /\ last.catalog[i].key \in Fetched
              /\ last.resp[last.catalog[i].key].kind = "doc"
        /\ \A k \in Fetched :
              last.resp[k].kind = "novalue" => k \notin ToSet(last.removes)

\* C4: a per-key failure never aborts a resolution call: whatever a key's fetch
\* response or embedded document, the call returns and has gone through every
\* enumerated key.
C4_PerKeyFailureLocal ==
    Ended(ResolverOps) => last.status = "ok" /\ Fetched = Enumerated

\* C9: with hide_illicit_items no returned listing has the restricted category
\* among its product_categories (primary or subcategory); without it no listing
\* is left out on that ground: every fetched document the resolver accepts has
\* its view in the result.
C9_ContentPolicyFilter ==
    Returned(ListingOps) /\ last.status = "ok" =>
        /\ last.hide =>
              \A i \in 1..Len(last.catalog) :
                  IllicitCategory \notin ToSet(last.catalog[i].product_categories)
        /\ ~last.hide =>
              \A k \in Fetched :
                  (/\ last.resp[k].kind = "doc"
                   /\ last.op # "getListingsBySearchTerm" => ~Mistagged(k))
                      => k \in ViewKeys

C9_Witness ==
    /\ Returned(ListingOps) /\ last.status = "ok" /\ last.hide
    /\ \E k \in Fetched : Restricted(k) /\ last.resp[k].subcategories # <<>>
    /\ Len(last.catalog) = 1 /\ Cardinality(Fetched) = 2

(***************************************************************************)
(* Properties of uploadImageToObject.                                      *)
(***************************************************************************)
Uploaded == Returned({"uploadImageToObject"})

\* C5: when the hasher yields at least one piece, the pieces are in stream
\* order and cover [0, N) exactly once, their lengths sum to N, the
\* descriptor's size is N and its pieces are the pieces' hashes in order.
C5_PieceCoverage ==
    Uploaded /\ last.file_pieces # <<>> =>
        LET pieces == last.file_pieces
            n == Len(pieces)
        IN  /\ pieces[1].offset = 0
            /\ \A i \in 1..n : pieces[i].bytes > 0 /\ pieces[i].index = i - 1
            /\ \A i \in 1..(n - 1) :
                  pieces[i + 1].offset = pieces[i].offset + pieces[i].bytes
            /\ pieces[n].offset + pieces[n].bytes = last.file.size
            /\ last.status = "ok"
            /\ last.image.size = last.file.size
            /\ Len(last.image.pieces) = n
            /\ \A i \in 1..n : last.image.pieces[i] = pieces[i].hash

C5_Witness ==
    /\ Uploaded /\ last.file.size = 600000
    /\ Len(last.file_pieces) = 3 /\ last.image.size = 600000

\* C6 as claimed: every non-empty payload below 32 KiB gives exactly one piece.
C6_AsClaimed ==
    Uploaded /\ last.file.readable /\ last.file.size > 0 /\ last.file.size < 32768 =>
        Len(last.file_pieces) = 1

\* C6 (amended): below 32 KiB the piece size is 16 KiB, so a non-empty payload
\* of at most 16384 bytes gives exactly one piece and one of 16385..32767
\* bytes gives two.
C6_SmallPayloadPieces ==
    Uploaded /\ last.file.readable /\ last.file.size > 0 /\ last.file.size < 32768 =>
        /\ last.piece_size = 16384
        /\ last.file.size <= 16384 => Len(last.file_pieces) = 1
        /\ last.file.size > 16384 => Len(last.file_pieces) = 2

C6_Witness ==
    /\ Uploaded /\ last.file.readable
    /\ last.file.size = 32767 /\ Len(last.file_pieces) = 2

\* C7: with a maximum image size of 2 MiB the piece size is that of the
\* highest tier whose threshold the size reaches (threshold included), 16 KiB
\* below every threshold; it is never below 16 KiB and never decreases as the
\* size grows.
Tiers ==
    {<<2097152, 1048576>>, <<1048576, 524288>>, <<524288, 262144>>,
     <<262144, 131072>>, <<131072, 65536>>, <<65536, 32768>>, <<32768, 16384>>}

C7_PieceSizeTiers ==
    Uploaded =>
        LET N == last.file.size
            reached == {t \in Tiers : N >= t[1]}
        IN  /\ \A t \in reached :
                  (\A u \in reached : u[1] <= t[1]) => last.piece_size = t[2]
            /\ reached = {} => last.piece_size = 16384
            /\ last.piece_size >= 16384
            /\ \A m \in FileSizes : m <= N => PieceSize(m) <= last.piece_size

C7_Witness == Uploaded /\ last.file.size = 524288 /\ last.piece_size = 262144

\* C8 as claimed: 600,000 bytes are chunked with piece size 131,072 into 5
\* pieces, four of 128 KiB and a remainder.
C8_AsClaimed ==
    Uploaded /\ last.file.readable /\ last.file.size = 600000 =>
        /\ last.piece_size = 131072
        /\ Len(last.file_pieces) = 5

\* C8 (amended): 600,000 bytes reach the 512 KiB threshold, so the piece size
\* is 262,144 and there are 3 pieces: two of 256 KiB and a remainder of 75,712
\* bytes.
C8_Example600000 ==
    Uploaded /\ last.file.readable /\ last.file.size = 600000 =>
        /\ last.piece_size = 262144
        /\ Len(last.file_pieces) = 3
        /\ last.file_pieces[1].bytes = 262144
        /\ last.file_pieces[2].bytes = 262144
        /\ last.file_pieces[3].bytes = 75712

C8_Witness ==
    /\ Uploaded /\ last.file.readable /\ last.file.size = 600000
    /\ last.image.piece_size = 262144 /\ Len(last.image.pieces) = 3

\* C21: the result is the empty descriptor (a map with no name, size,
\* piece_size or pieces) exactly when the hasher yields no piece; with at
\* least one piece it carries name, size, id, piece_size and pieces.
C21_EmptyPayload ==
    Uploaded =>
        /\ last.file_pieces = <<>> <=> last.image = EmptyImage
        /\ last.file_pieces = <<>> =>
              DOMAIN last.image \cap {"name", "size", "id", "piece_size", "pieces"} = {}
        /\ last.file_pieces # <<>> =>
              /\ last.status = "ok"
              /\ {"name", "size", "id", "piece_size", "pieces"} \subseteq DOMAIN last.image
              /\ last.image.pieces # <<>>

C21_Witness ==
    /\ Uploaded /\ ~last.file.readable /\ last.file.size = 600000
    /\ last.file_pieces = <<>> /\ DOMAIN last.image = {}

(***************************************************************************)
(* Properties of the sort orders.                                          *)
(***************************************************************************)
Sorted == Returned({"sortBy", "getListings"}) /\ last.sorting \in ImplementedSortings

\* The catalog before sorting lists the views in the order of sortBy's
\* argument, and in getListings in the order the keys were enumerated.
KeysBefore ==
    IF last.op = "sortBy" THEN [i \in 1..Len(last.input) |-> last.input[i].key]
    ELSE last.keys

PositionBefore(key) == CHOOSE i \in 1..Len(KeysBefore) : KeysBefore[i] = key

TiedUnder(sorting, a, b) == ~Less(sorting, a, b) /\ ~Less(sorting, b, a)

\* C10: every implemented sort order, in sortBy and in getListings, is stable:
\* two entries whose sort keys compare equal keep their relative order.
C10_SortStable ==
    Sorted /\ last.status = "ok" =>
        \A i, j \in 1..Len(last.catalog) :
            (i < j /\ TiedUnder(last.sorting, last.catalog[i], last.catalog[j]))
                => PositionBefore(last.catalog[i].key) < PositionBefore(last.catalog[j].key)

SortedBy(sorting) == Returned({"sortBy"}) /\ last.sorting = sorting

Reverse(s) == [i \in 1..Len(s) |-> s[Len(s) + 1 - i]]

Prices(catalog) == [i \in 1..Len(catalog) |-> catalog[i].price]

DistinctPrices(catalog) ==
    \A i, j \in 1..Len(catalog) : catalog[i].price = catalog[j].price => i = j

\* C11: sortBy with SortByPriceLowest returns a catalog that is already in
\* ascending price order as the identical sequence (so that sorting twice
\* gives what sorting once gives).
C11_SortedInputUnchanged ==
    SortedBy("SortByPriceLowest") /\ IsSortedBy("SortByPriceLowest", last.input) =>
        last.catalog = last.input

\* C12 as claimed: sortBy with SortByPriceHighest returns a catalog that is in
\* ascending price order as exactly its reverse.
C12_AsClaimed ==
    SortedBy("SortByPriceHighest") /\ IsSortedBy("SortByPriceLowest", last.input) =>
        last.catalog = Reverse(last.input)

\* C12 (amended): sortBy with SortByPriceHighest returns a catalog that is in
\* ascending price order with its prices in reverse sequence; the result is
\* exactly the reverse of the input when no two prices are equal (entries of
\* equal price come out in an unspecified order).
C12_PriceHighestReverses ==
    SortedBy("SortByPriceHighest") /\ IsSortedBy("SortByPriceLowest", last.input) =>
        /\ Prices(last.catalog) = Reverse(Prices(last.input))
        /\ ToSet(last.catalog) = ToSet(last.input)
        /\ DistinctPrices(last.input) => last.catalog = Reverse(last.input)

C12_Witness ==
    /\ SortedBy("SortByPriceHighest")
    /\ Prices(last.input) = <<1, 2, 3>>
    /\ Prices(last.catalog) = <<3, 2, 1>>
    /\ last.catalog = Reverse(last.input)

\* C13: a sorting without an implemented order (SortNone, SortByCategory,
\* SortByMostFavorited, SortByMostSales, SortByAverageRating, an unknown
\* value) is a no-op in sortBy and in getListings: the call returns normally
\* with the entries it was given, or had collected, in the same order.
C13_UnimplementedSortNoOp ==
    /\ Returned({"sortBy"}) /\ last.sorting \notin ImplementedSortings =>
           last.status = "ok" /\ last.catalog = last.input
    /\ (/\ Returned({"getListings"}) /\ last.sorting \notin ImplementedSortings
        /\ last.fault = "none") =>
           /\ last.catalog = last.collected
           /\ last.status = "ok" =>
                 [i \in 1..Len(last.catalog) |-> last.catalog[i].key] = last.keys

C13_Witness ==
    /\ Returned({"getListings"}) /\ last.sorting = "SortByAverageRating"
    /\ last.status = "ok" /\ Len(last.catalog) = 2
    /\ last.catalog[1].price > last.catalog[2].price

(***************************************************************************)
(* Properties of the enumeration and of the calls a resolver makes.        *)
(***************************************************************************)
Unsorted ==
    /\ Returned(CatalogOps) /\ last.fault = "none"
    /\ last.op = "getListings" => last.sorting = "SortNone"

\* The keys that contribute an entry, in the order they were enumerated: those
\* whose fetch had no usable value and those whose document was not skipped.
Contributing ==
    SelectSeq(last.keys,
              LAMBDA k : /\ k # NullKey
                         /\ last.resp[k].kind \in {"novalue", "doc"}
                         /\ k \notin SkippedKeys)

\* C14: when no sort is applied the entries of the result follow the order in
\* which the index query enumerated their keys, whatever the documents'
\* dates.
C14_EnumerationOrder ==
    Unsorted /\ last.status = "ok" =>
        /\ Len(last.catalog) = Len(Contributing)
        /\ \A i \in 1..Len(last.catalog) :
              last.catalog[i].key =
                 IF last.resp[Contributing[i]].kind = "novalue" THEN NullKey
                 ELSE Contributing[i]

C14_Witness ==
    /\ Unsorted /\ last.status = "ok" /\ last.op = "getListingsByCategory"
    /\ Len(last.catalog) = 2
    /\ last.catalog[1].key # NullKey /\ last.catalog[2].key # NullKey
    /\ DateTimeOf(last.catalog[1]) < DateTimeOf(last.catalog[2])

NoDuplicates(s) == \A i, j \in 1..Len(s) : s[i] = s[j] => i = j

\* C15: each distinct key is enumerated once per call, also when the index
\* holds it under several search terms, and no two views of a result carry
\* the same key.
C15_DistinctKeys ==
    Returned(ResolverOps) =>
        /\ NoDuplicates(last.keys)
        /\ NoDuplicates(last.gets)
        /\ \A i, j \in 1..Len(last.catalog) :
              (last.catalog[i].key # NullKey /\ last.catalog[i].key = last.catalog[j].key)
                  => i = j

C15_Witness ==
    /\ Returned(ListingOps) /\ last.status = "ok"
    /\ Len(index) = 2 /\ index[1].key = index[2].key /\ index[1].term # index[2].term
    /\ last.keys = <<index[1].key>>
    /\ Len(last.catalog) = 1 /\ last.catalog[1].key = index[1].key

Count(s, x) == Cardinality({i \in 1..Len(s) : s[i] = x})

\* C16: no retries: a call makes exactly one get for each key its query
\* enumerated, whatever the get's outcome, at most one remove per key, and a
\* remove only directly after that key's get reported an error.
C16_NoRetries ==
    Ended(ResolverOps) =>
        /\ \A k \in Enumerated : Count(last.gets, k) = 1
        /\ Fetched \subseteq Enumerated
        /\ \A k \in Keys : Count(last.removes, k) <= 1
        /\ Len(last.log) = Len(last.gets) + Len(last.removes)
        /\ \A i \in 1..Len(last.log) :
              last.log[i][1] = "remove" =>
                  /\ i > 1
                  /\ last.log[i - 1] = <<"get", last.log[i][2]>>
                  /\ last.resp[last.log[i][2]].kind = "error"
                  /\ last.log[i][2] \in ToSet(last.removes)

\* The keys whose response fails an assertion of the call: a response
\* without an object under "response", a value that is JSON but no object, or
\* an accepted listing without a product object.
AbortingKeys ==
    {k \in Fetched :
        \/ last.resp[k].kind \in {"noresponse", "notobject"}
        \/ /\ last.resp[k].kind = "doc"
           /\ last.op \in ListingOps
           /\ ~MetadataRejected(last.op, last.resp[k])
           /\ last.resp[k].shape = "productless"}

\* The keys whose response makes the call throw: text that is no JSON or is
\* JSON of a type without members, a value that is no JSON, or an accepted
\* document lacking a member the projection reads.
ThrowingKeys ==
    {k \in Fetched \ AbortingKeys :
        \/ last.resp[k].kind \in {"malformed", "badresponse", "badvalue"}
        \/ /\ last.resp[k].kind = "doc"
           /\ ~MetadataRejected(last.op, last.resp[k])
           /\ last.resp[k].shape # ExpectedContent(last.op)}

FailedRemoves == ToSet(last.removes) \ last.pruned

DocumentKeys ==
    {k \in Fetched : last.resp[k].kind = "doc" /\ k \notin SkippedKeys}

\* C17: removal is best-effort: whether the store carries out a remove or not,
\* the call does not raise an error on its account (it throws only on a
\* response it cannot parse and fails an assertion only on a response of the
\* wrong form), goes on through the remaining keys, and returns the views of
\* the documents it accepted.
C17_RemoveBestEffort ==
    Ended(ResolverOps) /\ last.removes # <<>> =>
        /\ last.status = "threw" <=> ThrowingKeys # {}
        /\ last.status = "crashed" <=> AbortingKeys # {}
        /\ last.status = "ok" =>
              /\ last.op # "getUser" => last.stepped = last.keys
              /\ ViewKeys \ {NullKey} = DocumentKeys
              /\ ToSet(last.removes) \cap ViewKeys = {}

C17_Witness ==
    /\ Returned(CatalogOps) /\ last.status = "ok" /\ Len(last.keys) = 2
    /\ last.removes = <<last.keys[1]>> /\ FailedRemoves = {last.keys[1]}
    /\ ViewKeys = {last.keys[2]}

InIndex(k) == \E i \in 1..Len(index) : index[i].key = k

RemoveAttempted(k) == Returned(ResolverOps) /\ k \in ToSet(last.removes)

RemoveSucceeded(k) == Returned(ResolverOps) /\ k \in last.pruned

\* C18: a call that reaches a key whose fetch reports an error issues a remove
\* for it, whatever earlier calls did, and a key is fetched only while the
\* index holds it; hence, if passes keep occurring in which the key's fetch
\* reports an error (a remove is attempted again and again while the index
\* holds the key) and a remove attempted again and again eventually succeeds,
\* the key is eventually out of the index for good and no longer fetched.
C18_RetriedUntilPruned ==
    /\ [](Returned(ResolverOps) =>
             /\ \A k \in RealKeys(last.stepped) :
                   last.resp[k].kind = "error" => k \in ToSet(last.removes)
             /\ \A k \in last.pruned : ~InIndex(k)
             /\ \A k \in Fetched : InIndex(k) \/ k \in last.pruned)
    /\ \A k \in Keys :
          (/\ [](InIndex(k) => <>RemoveAttempted(k))
           /\ []<>RemoveAttempted(k) => <>RemoveSucceeded(k))
              => <>[](~InIndex(k))

C18_Witness ==
    /\ Returned(ResolverOps)
    /\ \E k \in FailedRemoves : InIndex(k) /\ last.resp[k].kind = "error"

\* C19: when the index cannot be queried the call fails as a whole with an
\* error surfaced to the caller, not with a result like that of an empty
\* index, and makes no get or remove call.
C19_IndexUnavailableFatal ==
    Returned(ResolverOps) /\ last.fault # "none" =>
        /\ last.status = "threw"
        /\ last.gets = <<>> /\ last.removes = <<>>

\* C20: a document that passed the metadata check but lacks a member the
\* projection requires is unparseable for that key only: the call does not
\* throw and goes through every enumerated key.
C20_MissingFieldLocal ==
    Ended(ResolverOps) /\ last.fault = "none" =>
        \A k \in Fetched :
            (/\ last.resp[k].kind = "doc"
             /\ last.resp[k].metadata = ExpectedContent(last.op)
             /\ last.resp[k].shape # ExpectedContent(last.op))
                => last.status = "ok" /\ last.stepped = last.keys

(***************************************************************************)
(* Properties of the rating aggregation helpers.                           *)
(***************************************************************************)
GoodCount == Cardinality({i \in 1..Len(last.input) : last.input[i].score = 1})

\* C22: getSellerReputation returns 0 for an empty collection and otherwise
\* the integer part of goodCount * 100 / total; the result is in 0..100.
C22_Reputation ==
    Returned({"getSellerReputation"}) =>
        /\ last.status = "ok"
        /\ last.result = IF Len(last.input) = 0 THEN 0
                         ELSE (GoodCount * 100) \div Len(last.input)
        /\ last.result \in 0..100

StarsInRange == \A i \in 1..Len(last.input) : last.input[i].stars \in 1..5

\* The significand of a result as a number, and the power of two it is to be
\* divided by.
ResultSignificand == FromBits(last.result.m)

ResultScale == Pow2(0 - last.result.e)

\* C23 as claimed: getProductAverageStars returns 0.0 for an empty collection
\* and otherwise a value that, times the number of entries, equals the sum of
\* s times the number of ratings with s stars.
C23_AsClaimed ==
    Returned({"getProductAverageStars"}) =>
        IF Len(last.input) = 0 \/ StarSum(last.input) = 0 THEN last.result = FpZero
        ELSE ResultSignificand * Len(last.input) = StarSum(last.input) * ResultScale

\* C23 (amended): getProductAverageStars returns 0.0 for an empty collection
\* and otherwise the single-precision value nearest to that sum divided by
\* the number of entries: the quotient itself when it is representable, and
\* within half a unit of the last of its 24 bits otherwise; it lies between 1
\* and 5 when every entry has stars in 1..5.
C23_AverageStars ==
    Returned({"getProductAverageStars"}) =>
        IF Len(last.input) = 0 \/ StarSum(last.input) = 0 THEN last.result = FpZero
        ELSE LET total == Len(last.input)
                 exact == StarSum(last.input) * ResultScale
                 error == IF ResultSignificand * total >= exact
                          THEN ResultSignificand * total - exact
                          ELSE exact - ResultSignificand * total
             IN  /\ Len(last.result.m) <= FloatBits
                 /\ last.result.m[1] = 1
                 /\ exact % total = 0 => error = 0
                 /\ Len(last.result.m) = FloatBits => 2 * error <= total
                 /\ Len(last.result.m) < FloatBits => error = 0
                 /\ StarsInRange =>
                       ResultScale <= ResultSignificand
                          /\ ResultSignificand <= 5 * ResultScale

C23_Witness ==
    /\ Returned({"getProductAverageStars"})
    /\ Len(last.input) = 3 /\ StarSum(last.input) = 14
    /\ Len(last.result.m) = FloatBits
    /\ ResultSignificand * 3 # 14 * ResultScale

(***************************************************************************)
(* The keys of the sort orders, stated for the listings of Payloads: the   *)
(* instant of a date in hours after 2024-01-01T00:00:00 UTC, and the rank  *)
(* of a product name among the names with their case ignored.              *)
(***************************************************************************)
TimestampKey(view) ==
    CASE view.date = Date1Z -> 0
      [] view.date = Date1Utc -> 0
      [] view.date = Date1Plus1 -> 0
      [] view.date = Date2Z -> 24

NameKey(view) ==
    CASE view.product_name \in {<<"a">>, <<"A">>} -> 1
      [] view.product_name = <<"a", "b">> -> 2
      [] view.product_name = <<"B">> -> 3

InOrder(sorting, a, b) ==
    CASE sorting = "SortByMostRecent" -> TimestampKey(a) >= TimestampKey(b)
      [] sorting = "SortByOldest" -> TimestampKey(a) <= TimestampKey(b)
      [] sorting = "SortByAlphabeticalOrder" -> NameKey(a) <= NameKey(b)
      [] sorting = "SortByPriceLowest" -> a.price <= b.price
      [] sorting = "SortByPriceHighest" -> a.price >= b.price

\* C25: for each implemented order sortBy returns a permutation of its input
\* (the same entries with the same multiplicities) in which consecutive
\* entries are ordered by that order's key: timestamp descending or ascending
\* with a trailing Z read as +00:00, product name ascending ignoring case,
\* price ascending or descending; the input catalog is left unmodified.
C25_SortByOrders ==
    Returned({"sortBy"}) /\ last.sorting \in ImplementedSortings =>
        /\ last.status = "ok"
        /\ Len(last.catalog) = Len(last.input)
        /\ \A v \in ToSet(last.input) \cup ToSet(last.catalog) :
               Count(last.catalog, v) = Count(last.input, v)
        /\ \A i \in 1..(Len(last.catalog) - 1) :
               InOrder(last.sorting, last.catalog[i], last.catalog[i + 1])
        /\ last.argument = last.input

C25_Witness ==
    /\ Returned({"sortBy"}) /\ last.sorting = "SortByMostRecent"
    /\ [i \in 1..Len(last.input) |-> last.input[i].date] = <<Date1Z, Date2Z, Date1Plus1>>
    /\ last.catalog[1].date = Date2Z
    /\ last.catalog # last.input
    /\ last.argument = last.input

\* C26: getProductStarCount(product_id, star_number) terminates and returns
\* what getProductStarCount(getProductRatings(product_id), star_number)
\* returns: every call that has resolved the product's ratings eventually
\* returns a count.
C26_StarCountByIdReturns ==
    [](last.op = "getProductStarCountById" /\ pc = "recursing" =>
          <>(Returned({"getProductStarCountById"}) /\ last.status = "ok"))

\* What the part of getListings before its switch yields in the call of the
\* current state: the calls it makes and the catalog it collects do not
\* depend on the sorting.
Collected ==
    Finish("getListings",
           ResolveKeys("getListings", last.hide, last.keys, last.resp,
                       last.pruned, StartAcc))

\* C27: getListings(sorting, hide) returns what
\* sortBy(getListings(SortNone, hide), sorting) returns and issues the same
\* get and remove calls: each result of getListings is a result of sortBy on
\* the unsorted catalog and each result of sortBy is one of getListings.
C27_GetListingsIsSortBy ==
    Returned({"getListings"}) =>
        IF last.fault # "none"
        THEN last.catalog = <<>> /\ last.gets = <<>> /\ last.removes = <<>>
        ELSE /\ last.gets = Collected.gets
             /\ last.removes = Collected.removes
             /\ last.status = Collected.status
             /\ last.status = "ok" =>
                   \A unsorted \in ListingsSortOutcomes(Collected.catalog, "SortNone") :
                      /\ last.catalog \in SortOutcomes(unsorted, last.sorting)
                      /\ SortOutcomes(unsorted, last.sorting)
                            \subseteq ListingsSortOutcomes(Collected.catalog, last.sorting)

C27_Witness ==
    /\ Returned({"getListings"}) /\ last.sorting = "SortByOldest"
    /\ last.status = "ok" /\ last.gets = <<1, 2>>
    /\ Len(last.catalog) = 2
    /\ last.catalog # last.collected
    /\ last.catalog \in SortOutcomes(last.collected, "SortByOldest")

\* C28: getListingsByMostRecent(limit, hide) never returns more than
\* max(limit, 0) entries, for every limit, 0 and negative ones included; for
\* limit >= 0 the result is the first min(limit, n) entries of getListings
\* sorted by most recent, n being the length of that catalog.
C28_MostRecentLimit ==
    Returned({"getListingsByMostRecent"}) /\ last.status = "ok" =>
        /\ Len(last.catalog) <= (IF last.limit > 0 THEN last.limit ELSE 0)
        /\ last.limit >= 0 => last.catalog = Take(last.listings, last.limit)

(***************************************************************************)
(* Properties of the account operations.                                   *)
(***************************************************************************)
\* C29: when registerUser returns a failure result the observable state is
\* unchanged: the current user is not replaced, no RSA key file has been
\* written, no put has been sent, no cart row has been inserted and no
\* userChanged or userLogged signal has been emitted.
C29_RegisterFailureChangesNothing ==
    Returned({"registerUser"}) /\ last.status = "ok" /\ last.result = FALSE =>
        /\ session.user = last.before.user /\ session.installs = last.before.installs
        /\ session.key_files = last.before.key_files
        /\ session.puts = last.before.puts
        /\ session.cart = last.before.cart
        /\ session.signals = last.before.signals

Position(log, step) ==
    IF \E i \in 1..Len(log) : log[i] = step
    THEN CHOOSE i \in 1..Len(log) : log[i] = step
    ELSE 0

\* C30: loginWithWalletFile installs a user and emits userLogged only after,
\* in this order, the daemon-bound check passed, wallet_controller->open
\* returned 0 (no wallet error of any kind) and the index was found to hold a
\* user mapping for the primary address; when the daemon is not bound the
\* wallet is never opened; when the mapping is missing the wallet is closed
\* before UserNotFound is returned and no user is installed.
C30_LoginOrder ==
    Returned({"loginWithWalletFile"}) =>
        /\ (\/ session.installs # last.before.installs
            \/ Position(last.log, "userLogged") > 0) =>
               /\ 0 < Position(last.log, "isDaemonServerBound")
               /\ Position(last.log, "isDaemonServerBound") < Position(last.log, "open")
               /\ Position(last.log, "open") < Position(last.log, "user_found")
               /\ Position(last.log, "user_found") < Position(last.log, "install")
               /\ Position(last.log, "userLogged") > 0 =>
                     Position(last.log, "install") < Position(last.log, "userLogged")
               /\ last.wallet_error = "Ok"
               /\ last.user_found
        /\ last.result = "DaemonIsNotConnected" =>
               Position(last.log, "open") = 0 /\ session = last.before
        /\ last.result = "UserNotFound" =>
               /\ last.log[Len(last.log)] = "close"
               /\ session.wallet = "closed"
               /\ session.installs = last.before.installs
               /\ session.user = last.before.user

====
